---- MODULE Spec2Model ----
(***************************************************************************)
(* ftsintensity (src/src/ftsintensity.cpp): one run of main, from the      *)
(* command line to the exit status, as a state machine.                    *)
(*                                                                         *)
(* Numbers: wavenumbers and intensities are doubles/floats in the program; *)
(* the model uses integers for them (comparisons and the index arithmetic  *)
(* i*delw+wstart are kept, rounding is not modelled).  The value the GSL   *)
(* fit predicts at x is kept symbolic: a calibrated record is either the   *)
(* zero record or "num / spline(at)".                                      *)
(* Files: a text file is a sequence of lines plus a flag telling whether   *)
(* the last line ends in a newline; the measured spectrum is a sequence of *)
(* whole 32-bit records.                                                   *)
(***************************************************************************)
EXTENDS Integers, Sequences, FiniteSets, TLC

VARIABLES
  pc,         \* position in main
  exitCode,   \* -1 while running; 0 or 1 returned by main; 134 (SIGABRT), 139 (SIGSEGV)
  err,        \* which ERROR message main printed last ("" = none)
  usageErr,   \* getNumCoefficients printed an ERROR message
  ncoeffs,    \* size_t ncoeffs
  nbreak,     \* const size_t nbreak
  spectrum,   \* ifstream spectrum: [open, data]
  header,     \* ifstream header: [open, lines, nl, pos, eofbit, failbit]
  field,      \* index (1..4) of the header field being looked up
  wstart, wstop, delw, numPts,
  calData,    \* ifstream calData: [open, lines, nl]
  xVec, yVec, n, xmin, xmax,
  gsl,        \* GSL handles currently allocated
  calSpectrum, \* output .dat: [created, recs]
  calHeader    \* output .hdr: [created, lines, nl]

vars == <<pc, exitCode, err, usageErr, ncoeffs, nbreak, spectrum, header, field,
          wstart, wstop, delw, numPts, calData, xVec, yVec, n, xmin, xmax,
          gsl, calSpectrum, calHeader>>

----------------------------------------------------------------------------
(* Bounds of the inputs *)

MaxArgLen == 1      \* characters in the fourth argument
MaxPts == 4         \* largest npo a header declares
MaxX == 7           \* largest x in a response file
MaxRecs == 4        \* most records a measured spectrum file holds
SizeBits == 16      \* width given to size_t in the model

(* Program constants *)

DEFAULT_NUM_COEFFS == 200
REQUIRED_NUM_ARGS_MODE1 == 4
REQUIRED_NUM_ARGS_MODE2 == 5
MIN_COEFFS == 4

XMIN_TAG == "wstart"
XMAX_TAG == "wstop"
DELTAX_TAG == "delw"
NUM_PTS_TAG == "npo"

SizeMod == 2 ^ SizeBits

----------------------------------------------------------------------------
(* Command line: is_numeric and getNumCoefficients *)

Digits == {"0", "1", "2", "3", "4", "5", "6", "7", "8", "9"}
ArgChars == {"3", "4", "5", "a"}

DigitVal(ch) ==
  CASE ch = "0" -> 0 [] ch = "1" -> 1 [] ch = "2" -> 2 [] ch = "3" -> 3
    [] ch = "4" -> 4 [] ch = "5" -> 5 [] ch = "6" -> 6 [] ch = "7" -> 7
    [] ch = "8" -> 8 [] ch = "9" -> 9

\* the strings the fourth argument is drawn from
ArgStrings == UNION {[1..k -> ArgChars] : k \in 0..MaxArgLen}

\* a character is rejected when it is not alphanumeric or is a letter
is_numeric(a) == \A i \in 1..Len(a) : a[i] \in Digits

\* istringstream >> size_t on a string of digits
RECURSIVE ParseSize(_)
ParseSize(a) ==
  IF Len(a) = 0 THEN 0
  ELSE (ParseSize(SubSeq(a, 1, Len(a) - 1)) * 10 + DigitVal(a[Len(a)])) % SizeMod

\* what an uninitialised size_t may hold
UninitSizes == {0, SizeMod - 1}

\* garbage: the value ncoeffs holds when the extraction stores nothing
\* (an empty argument: the stream is at end-of-file before any digit)
getNumCoefficients(argc, a, garbage) ==
  IF argc = REQUIRED_NUM_ARGS_MODE1
    THEN [value |-> DEFAULT_NUM_COEFFS, error |-> FALSE]
  ELSE IF ~is_numeric(a)
    THEN [value |-> 1, error |-> TRUE]
  ELSE LET parsed == IF Len(a) = 0 THEN garbage ELSE ParseSize(a)
       IN IF parsed < MIN_COEFFS
            THEN [value |-> 1, error |-> TRUE]
            ELSE [value |-> parsed, error |-> FALSE]

\* size_t subtraction ncoeffs - 2
NbreakOf(nc) == (nc - 2) % SizeMod

----------------------------------------------------------------------------
(* Text streams: std::ifstream with getline and seekg *)

BlankLine == [tag |-> "", val |-> 0, short |-> TRUE]

ClosedText == [open |-> FALSE, lines |-> <<>>, nl |-> TRUE, pos |-> 0,
               eofbit |-> FALSE, failbit |-> FALSE]

OpenText(f) == [open |-> TRUE, lines |-> f.lines, nl |-> f.nl, pos |-> 0,
                eofbit |-> FALSE, failbit |-> FALSE]

\* std::getline(stream, LineString): cur is LineString before the call
GetLine(s, cur) ==
  IF ~s.open \/ s.eofbit \/ s.failbit
    THEN [s |-> [s EXCEPT !.failbit = TRUE], line |-> cur]
  ELSE IF s.pos >= Len(s.lines)
    THEN [s |-> [s EXCEPT !.eofbit = TRUE, !.failbit = TRUE], line |-> BlankLine]
  ELSE [s |-> [s EXCEPT !.pos = s.pos + 1,
                        !.eofbit = (s.pos + 1 = Len(s.lines) /\ ~s.nl)],
        line |-> s.lines[s.pos + 1]]

\* stream.seekg(0): eofbit is cleared first, a failed stream is left alone
SeekBeg(s) ==
  LET c == [s EXCEPT !.eofbit = FALSE]
  IN IF ~c.open \/ c.failbit THEN [c EXCEPT !.failbit = TRUE]
     ELSE [c EXCEPT !.pos = 0]

----------------------------------------------------------------------------
(* getXGremlinHeaderField *)

\* the do-while loop; NextField keeps its value when a line has no token
RECURSIVE ScanField(_, _, _, _)
ScanField(s, FieldName, NextField, LineString) ==
  LET g == GetLine(s, LineString)
      nf == IF g.line.tag = "" THEN NextField ELSE g.line.tag
  IN IF nf # FieldName /\ ~g.s.eofbit
       THEN IF g.s.failbit
              THEN [s |-> g.s, line |-> g.line, hang |-> TRUE]
              ELSE ScanField(g.s, FieldName, nf, g.line)
       ELSE [s |-> g.s, line |-> g.line, hang |-> FALSE]

\* outcome: "found" (val returned), "throw" (throw (1)), "terminate"
\* (substr throws std::out_of_range through throw (int)), "hang"
getXGremlinHeaderField(Header, FieldName) ==
  LET r == ScanField(SeekBeg(Header), FieldName, "", BlankLine)
  IN IF r.hang THEN [s |-> r.s, outcome |-> "hang", val |-> 0]
     ELSE IF ~r.s.eofbit
       THEN IF r.line.short
              THEN [s |-> r.s, outcome |-> "terminate", val |-> 0]
              ELSE [s |-> r.s, outcome |-> "found", val |-> r.line.val]
     ELSE [s |-> r.s, outcome |-> "throw", val |-> 0]

\* the four lookups of main, in the order main makes them
FieldTags == <<XMIN_TAG, XMAX_TAG, DELTAX_TAG, NUM_PTS_TAG>>

----------------------------------------------------------------------------
(* Header files the runs are given *)

NptsVals == {1, MaxPts}

HdrVal(tag, npts) ==
  CASE tag = XMIN_TAG -> 1
    [] tag = XMAX_TAG -> 1 + 2 * (npts - 1)
    [] tag = DELTAX_TAG -> 2
    [] tag = NUM_PTS_TAG -> npts

HdrLine(tag, npts) == [tag |-> tag, val |-> HdrVal(tag, npts), short |-> FALSE]

OtherLine == [tag |-> "id", val |-> 0, short |-> FALSE]

HdrOrders == {<<XMIN_TAG, XMAX_TAG, DELTAX_TAG, NUM_PTS_TAG>>,
              <<NUM_PTS_TAG, DELTAX_TAG, XMAX_TAG, XMIN_TAG>>}

BaseHeader(o, npts) == [i \in 1..4 |-> HdrLine(o[i], npts)]

RemoveAt(seq, k) == [i \in 1..(Len(seq) - 1) |-> IF i < k THEN seq[i] ELSE seq[i + 1]]

HeaderFiles ==
  UNION {
    LET b == BaseHeader(o, npts)
    IN    {[lines |-> b, nl |-> t] : t \in BOOLEAN}
       \cup {[lines |-> Append(b, OtherLine), nl |-> t] : t \in BOOLEAN}
       \cup {[lines |-> <<BlankLine>> \o b, nl |-> TRUE]}
       \cup {[lines |-> Append(b, HdrLine(NUM_PTS_TAG, npts + 1)), nl |-> TRUE]}
       \cup {[lines |-> RemoveAt(b, k), nl |-> TRUE] : k \in 1..4}
       \cup {[lines |-> [b EXCEPT ![k].short = TRUE], nl |-> TRUE] : k \in 1..4}
    : o \in HdrOrders, npts \in NptsVals }

----------------------------------------------------------------------------
(* Response files the runs are given: data lines with x = lo, lo+1, .., hi *)
(* (ascending, as the loader expects), then possibly one blank line        *)

RespStarts == {1, 2}

RespY(x) == x + 10

DataLine(x) == [blank |-> FALSE, x |-> x, y |-> RespY(x)]

BlankData == [blank |-> TRUE, x |-> 0, y |-> 0]

DataLines(lo, hi) == [i \in 1..(hi - lo + 1) |-> DataLine(lo + i - 1)]

ResponseFiles ==
  {[lines |-> <<>>, nl |-> TRUE]}
  \cup {[lines |-> DataLines(lo, hi), nl |-> t] :
          lo \in RespStarts, hi \in 2..MaxX, t \in BOOLEAN}
  \cup {[lines |-> Append(DataLines(lo, hi), BlankData), nl |-> t] :
          lo \in RespStarts, hi \in 1..MaxX, t \in BOOLEAN}

\* what an uninitialised double or float may hold
UninitVals == {0, 99}

\* the while (!calData.eof ()) loop; g is the result of the last getline
RECURSIVE LoadLoop(_, _)
LoadLoop(g, acc) ==
  IF g.s.eofbit THEN acc
  ELSE LET nxi == IF g.line.blank THEN acc.xi ELSE g.line.x
           nyi == IF g.line.blank THEN acc.yi ELSE g.line.y
       IN LoadLoop(GetLine(g.s, g.line),
                   [xVec |-> Append(acc.xVec, nxi), yVec |-> Append(acc.yVec, nyi),
                    n |-> acc.n + 1, xi |-> nxi, yi |-> nyi])

\* lines 221-233: gx, gy are what xi and yi hold before the first extraction
LoadResponse(f, gx, gy) ==
  LoadLoop(GetLine(OpenText(f), BlankData),
           [xVec |-> <<>>, yVec |-> <<>>, n |-> 0, xi |-> gx, yi |-> gy])

----------------------------------------------------------------------------
(* Calibration loop *)

\* measured spectrum files: whole records, record i holds 20 + i
Measured(i) == 20 + i

SpectrumFiles == {[i \in 1..k |-> Measured(i)] : k \in 0..MaxRecs}

ZeroRec == [kind |-> "zero", num |-> 0, at |-> 0]

\* floatyi / (float) ySpline, ySpline the fitted spline's estimate at x
RatioRec(floatyi, x) == [kind |-> "ratio", num |-> floatyi, at |-> x]

\* the range test with the lower end excluded
InDomainOpenBelow(x, lo, hi) == x > lo /\ x <= hi

\* line 306: the valid spline interpolation range
InDomain(x, lo, hi) == x >= lo /\ x <= hi

\* the loop running while i <= numPts
LoopLimitInclusive(np) == np + 1

\* line 302: the loop runs while i < numPts
LoopLimit(np) == np

\* spectrum.read of record i (0-based): a failed read stores nothing
ReadRecord(data, i, floatyi) == IF i < Len(data) THEN data[i + 1] ELSE floatyi

RECURSIVE CalLoop(_, _, _, _, _, _, _, _, _)
CalLoop(i, floatyi, recs, data, ws, dw, np, lo, hi) ==
  IF ~(i < LoopLimit(np)) THEN recs
  ELSE LET fy == ReadRecord(data, i, floatyi)
           x == i * dw + ws
           yCal == IF InDomain(x, lo, hi) THEN RatioRec(fy, x) ELSE ZeroRec
       IN CalLoop(i + 1, fy, Append(recs, yCal), data, ws, dw, np, lo, hi)

GslHandles == {"r", "bw", "B", "x", "y", "X", "c", "w", "cov", "mw"}

----------------------------------------------------------------------------
(* main *)

NoOutput == [created |-> FALSE, recs |-> <<>>]
NoHeaderOut == [created |-> FALSE, lines |-> <<>>, nl |-> TRUE]
ClosedResp == [state |-> "unopened", lines |-> <<>>, nl |-> TRUE]

Init ==
  /\ pc = "start"
  /\ exitCode = -1
  /\ err = ""
  /\ usageErr = FALSE
  /\ ncoeffs = 0
  /\ nbreak = 0
  /\ spectrum = [open |-> FALSE, data |-> <<>>]
  /\ header = ClosedText
  /\ field = 1
  /\ wstart = 0 /\ wstop = 0 /\ delw = 0 /\ numPts = 0
  /\ calData = ClosedResp
  /\ xVec = <<>> /\ yVec = <<>> /\ n = 0 /\ xmin = 0 /\ xmax = 0
  /\ gsl = {}
  /\ calSpectrum = NoOutput
  /\ calHeader = NoHeaderOut

\* return <code> from main, or death by a signal
Exit(code, msg) ==
  /\ pc' = "exit"
  /\ exitCode' = code
  /\ err' = msg

\* lines 159-162: wrong number of arguments
ShowHelp ==
  /\ pc = "start"
  /\ \E argc \in {3, 6} : argc # REQUIRED_NUM_ARGS_MODE1 /\ argc # REQUIRED_NUM_ARGS_MODE2
  /\ Exit(1, "")
  /\ UNCHANGED <<usageErr, ncoeffs, nbreak, spectrum, header, field, wstart, wstop,
                 delw, numPts, calData, xVec, yVec, n, xmin, xmax, gsl,
                 calSpectrum, calHeader>>

\* lines 175-176: ncoeffs and nbreak
GetCoefficients ==
  /\ pc = "start"
  /\ \E argc \in {REQUIRED_NUM_ARGS_MODE1, REQUIRED_NUM_ARGS_MODE2},
        a \in ArgStrings, garbage \in UninitSizes :
       LET r == getNumCoefficients(argc, a, garbage)
       IN /\ ncoeffs' = r.value
          /\ nbreak' = NbreakOf(r.value)
          /\ usageErr' = r.error
  /\ pc' = "openSpectrum"
  /\ UNCHANGED <<exitCode, err, spectrum, header, field, wstart, wstop,
                 delw, numPts, calData, xVec, yVec, n, xmin, xmax, gsl,
                 calSpectrum, calHeader>>

\* line 194: ifstream spectrum (SpectrumDAT); the file may not be there
OpenSpectrum ==
  /\ pc = "openSpectrum"
  /\ \/ spectrum' = [open |-> FALSE, data |-> <<>>]
     \/ \E d \in SpectrumFiles : spectrum' = [open |-> TRUE, data |-> d]
  /\ pc' = "openHeader"
  /\ UNCHANGED <<exitCode, err, usageErr, ncoeffs, nbreak, header, field, wstart, wstop,
                 delw, numPts, calData, xVec, yVec, n, xmin, xmax, gsl,
                 calSpectrum, calHeader>>

\* lines 200-201, 213-216: the header cannot be opened
OpenHeaderFails ==
  /\ pc = "openHeader"
  /\ header' = [ClosedText EXCEPT !.failbit = TRUE]
  /\ Exit(1, "HeaderOpen")
  /\ UNCHANGED <<usageErr, ncoeffs, nbreak, spectrum, field, wstart, wstop,
                 delw, numPts, calData, xVec, yVec, n, xmin, xmax, gsl,
                 calSpectrum, calHeader>>

\* lines 200-201: the header is opened
OpenHeader ==
  /\ pc = "openHeader"
  /\ \E f \in HeaderFiles : header' = OpenText(f)
  /\ pc' = "fields"
  /\ field' = 1
  /\ UNCHANGED <<exitCode, err, usageErr, ncoeffs, nbreak, spectrum, wstart, wstop,
                 delw, numPts, calData, xVec, yVec, n, xmin, xmax, gsl,
                 calSpectrum, calHeader>>

\* lines 202-210: one of the four lookups of the try block
ReadField ==
  /\ pc = "fields"
  /\ LET r == getXGremlinHeaderField(header, FieldTags[field])
     IN /\ header' = r.s
        /\ CASE r.outcome = "found" ->
                  /\ wstart' = IF field = 1 THEN r.val ELSE wstart
                  /\ wstop' = IF field = 2 THEN r.val ELSE wstop
                  /\ delw' = IF field = 3 THEN r.val ELSE delw
                  /\ numPts' = IF field = 4 THEN r.val ELSE numPts
                  /\ IF field < 4
                       THEN field' = field + 1 /\ pc' = "fields"
                       ELSE field' = field /\ pc' = "loadResponse"
                  /\ UNCHANGED <<exitCode, err>>
             [] r.outcome = "throw" ->
                  /\ Exit(1, "HeaderData")
                  /\ UNCHANGED <<field, wstart, wstop, delw, numPts>>
             [] r.outcome = "terminate" ->
                  /\ Exit(134, "")
                  /\ UNCHANGED <<field, wstart, wstop, delw, numPts>>
             [] r.outcome = "hang" ->
                  /\ pc' = "hang"
                  /\ UNCHANGED <<exitCode, err, field, wstart, wstop, delw, numPts>>
  /\ UNCHANGED <<usageErr, ncoeffs, nbreak, spectrum, calData, xVec, yVec, n,
                 xmin, xmax, gsl, calSpectrum, calHeader>>

\* lines 219-220, 235-238: the response file cannot be opened
OpenResponseFails ==
  /\ pc = "loadResponse"
  /\ Exit(1, "ResponseOpen")
  /\ UNCHANGED <<usageErr, ncoeffs, nbreak, spectrum, header, field, wstart, wstop,
                 delw, numPts, calData, xVec, yVec, n, xmin, xmax, gsl,
                 calSpectrum, calHeader>>

\* lines 219-233: the response file is read
ReadResponse ==
  /\ pc = "loadResponse"
  /\ \E f \in ResponseFiles, gx \in UninitVals, gy \in UninitVals :
       LET r == LoadResponse(f, gx, gy)
       IN /\ calData' = [state |-> "open", lines |-> f.lines, nl |-> f.nl]
          /\ xVec' = r.xVec
          /\ yVec' = r.yVec
          /\ n' = r.n
  /\ pc' = "closeResponse"
  /\ UNCHANGED <<exitCode, err, usageErr, ncoeffs, nbreak, spectrum, header, field,
                 wstart, wstop, delw, numPts, xmin, xmax, gsl, calSpectrum, calHeader>>

\* lines 234-247: close, take xmin and xmax, check the number of samples.
\* xVec[0] and xVec[size-1] of an empty vector are out-of-bounds reads: the
\* run dies there, or reads some values and goes on.
CloseResponse ==
  /\ pc = "closeResponse"
  /\ calData' = [state |-> "closed", lines |-> <<>>, nl |-> TRUE]
  /\ \/ /\ Len(xVec) = 0
        /\ Exit(139, "")
        /\ UNCHANGED <<xmin, xmax>>
     \/ /\ \E lo \in IF Len(xVec) = 0 THEN UninitVals ELSE {xVec[1]},
              hi \in IF Len(xVec) = 0 THEN UninitVals ELSE {xVec[Len(xVec)]} :
              xmin' = lo /\ xmax' = hi
        /\ IF n <= ncoeffs
             THEN Exit(1, "InsufficientSamples")
             ELSE pc' = "fit" /\ UNCHANGED <<exitCode, err>>
  /\ UNCHANGED <<usageErr, ncoeffs, nbreak, spectrum, header, field, wstart, wstop,
                 delw, numPts, xVec, yVec, n, gsl, calSpectrum, calHeader>>

\* lines 250-295: allocate the GSL workspaces and fit.  gsl_bspline_alloc is
\* given nbreak; with nbreak wrapped around (ncoeffs < 2) the library is
\* called outside its contract: its error handler aborts the run, or the
\* calls return and main goes on.
Fit ==
  /\ pc = "fit"
  /\ \/ /\ gsl' = GslHandles
        /\ pc' = "calibrate"
        /\ UNCHANGED <<exitCode, err>>
     \/ /\ nbreak # ncoeffs - 2
        /\ \E g \in {{"r"}, GslHandles} : gsl' = g
        /\ Exit(134, "")
  /\ UNCHANGED <<usageErr, ncoeffs, nbreak, spectrum, header, field, wstart, wstop,
                 delw, numPts, calData, xVec, yVec, n, xmin, xmax,
                 calSpectrum, calHeader>>

\* lines 298, 326-329: the measured spectrum was not opened
SpectrumUnreadable ==
  /\ pc = "calibrate"
  /\ ~spectrum.open
  /\ Exit(1, "SpectrumOpen")
  /\ UNCHANGED <<usageErr, ncoeffs, nbreak, spectrum, header, field, wstart, wstop,
                 delw, numPts, calData, xVec, yVec, n, xmin, xmax, gsl,
                 calSpectrum, calHeader>>

\* lines 299-300, 322-325: the output spectrum cannot be created
OutputUnwritable ==
  /\ pc = "calibrate"
  /\ spectrum.open
  /\ Exit(1, "OutputWrite")
  /\ UNCHANGED <<usageErr, ncoeffs, nbreak, spectrum, header, field, wstart, wstop,
                 delw, numPts, calData, xVec, yVec, n, xmin, xmax, gsl,
                 calSpectrum, calHeader>>

\* lines 298-321: the calibration loop; floatyi is uninitialised before the
\* first read
Calibrate ==
  /\ pc = "calibrate"
  /\ spectrum.open
  /\ \E garbage \in UninitVals :
       calSpectrum' = [created |-> TRUE,
                       recs |-> CalLoop(0, garbage, <<>>, spectrum.data,
                                        wstart, delw, numPts, xmin, xmax)]
  /\ spectrum' = [spectrum EXCEPT !.open = FALSE]
  /\ pc' = "copyHeader"
  /\ UNCHANGED <<exitCode, err, usageErr, ncoeffs, nbreak, header, field, wstart, wstop,
                 delw, numPts, calData, xVec, yVec, n, xmin, xmax, gsl, calHeader>>

\* the bytes the copy loop reads from the header stream after seekg
HeaderBytes(s) ==
  LET b == SeekBeg(s)
  IN IF b.failbit THEN [lines |-> <<>>, nl |-> TRUE]
     ELSE [lines |-> b.lines, nl |-> b.nl]

\* lines 332-341: copy the header; the output header's open is not checked
CopyHeader ==
  /\ pc = "copyHeader"
  /\ \/ calHeader' = [created |-> TRUE, lines |-> HeaderBytes(header).lines,
                      nl |-> HeaderBytes(header).nl]
     \/ calHeader' = NoHeaderOut
  /\ header' = [header EXCEPT !.open = FALSE]
  /\ pc' = "free"
  /\ UNCHANGED <<exitCode, err, usageErr, ncoeffs, nbreak, spectrum, field, wstart,
                 wstop, delw, numPts, calData, xVec, yVec, n, xmin, xmax, gsl,
                 calSpectrum>>

\* lines 343-354: free the GSL environment and return 0
Free ==
  /\ pc = "free"
  /\ gsl' = {}
  /\ Exit(0, "")
  /\ UNCHANGED <<usageErr, ncoeffs, nbreak, spectrum, header, field, wstart, wstop,
                 delw, numPts, calData, xVec, yVec, n, xmin, xmax,
                 calSpectrum, calHeader>>

Next ==
  \/ ShowHelp
  \/ GetCoefficients
  \/ OpenSpectrum
  \/ OpenHeaderFails
  \/ OpenHeader
  \/ ReadField
  \/ OpenResponseFails
  \/ ReadResponse
  \/ CloseResponse
  \/ Fit
  \/ SpectrumUnreadable
  \/ OutputUnwritable
  \/ Calibrate
  \/ CopyHeader
  \/ Free

Spec == Init /\ [][Next]_vars

----------------------------------------------------------------------------
(* Properties *)

\* query wavenumber of the record at 1-based position i
QueryX(i) == wstart + (i - 1) * delw

\* C1. Domain masking: for every sample index below sampleCount, the record
\* written at a query point outside [xmin, xmax] is exactly the zero record,
\* and at a query point inside (both ends included) it is the quotient of
\* the measured record by the spline estimate at that point.
DomainMasking ==
  calSpectrum.created =>
    \A i \in 1..numPts :
      /\ i <= Len(calSpectrum.recs)
      /\ IF QueryX(i) < xmin \/ QueryX(i) > xmax
           THEN calSpectrum.recs[i] = ZeroRec
           ELSE /\ calSpectrum.recs[i].kind = "ratio"
                /\ calSpectrum.recs[i].at = QueryX(i)
                /\ i <= Len(spectrum.data) =>
                     calSpectrum.recs[i].num = spectrum.data[i]

\* a complete, accepted run whose query points hit xmin, the interior, xmax
\* and the region above xmax
DomainMaskingWitness ==
  /\ pc = "exit" /\ exitCode = 0 /\ ~usageErr
  /\ calSpectrum.created
  /\ numPts = MaxPts /\ Len(spectrum.data) = numPts
  /\ xmin < xmax
  /\ \E i \in 1..numPts : QueryX(i) = xmin /\ calSpectrum.recs[i].kind = "ratio"
  /\ \E i \in 1..numPts : QueryX(i) = xmax /\ calSpectrum.recs[i].kind = "ratio"
  /\ \E i \in 1..numPts : QueryX(i) > xmin /\ QueryX(i) < xmax
  /\ \E i \in 1..numPts : QueryX(i) > xmax /\ calSpectrum.recs[i] = ZeroRec

\* C2. Count invariant: whenever the output spectrum was opened (which needs
\* the measured spectrum open), it holds exactly sampleCount records, the
\* record at position i being the one computed for index i.
CountInvariant ==
  calSpectrum.created =>
    /\ Len(calSpectrum.recs) = numPts
    /\ \A i \in 1..Len(calSpectrum.recs) :
         calSpectrum.recs[i] = ZeroRec \/ calSpectrum.recs[i].at = QueryX(i)

\* a run with a short measured spectrum and points inside and outside the domain
CountInvariantWitness ==
  /\ calSpectrum.created
  /\ ~usageErr /\ ncoeffs = 5
  /\ numPts = MaxPts /\ Len(spectrum.data) < numPts
  /\ \E i \in 1..numPts : calSpectrum.recs[i] = ZeroRec
  /\ \E i \in 1..numPts : calSpectrum.recs[i].kind = "ratio"

\* C3. Invalid coefficient argument: once the coefficient parser has rejected
\* the fourth argument, the run ends with exit status 1 without any file
\* opened and without the fit being reached.
UsageErrorBeforeIO ==
  usageErr =>
    /\ pc \in {"openSpectrum", "exit"}
    /\ ~spectrum.open /\ ~header.open /\ calData.state = "unopened"
    /\ gsl = {}
    /\ pc = "exit" => exitCode = 1

\* C4. Underdetermination guard: a run that loaded n <= numCoefficients
\* response samples ends with the insufficient-samples error, exit status 1,
\* and no output file.
UnderdeterminationGuard ==
  (pc = "exit" /\ calData.state = "closed" /\ n <= ncoeffs) =>
    /\ exitCode = 1 /\ err = "InsufficientSamples"
    /\ ~calSpectrum.created /\ ~calHeader.created

\* C5. All-or-nothing output: a finished run either produced both output
\* files in full with exit status 0, or ended non-zero with no output file.
AllOrNothing ==
  pc = "exit" =>
    \/ /\ exitCode = 0
       /\ calSpectrum.created /\ Len(calSpectrum.recs) = numPts
       /\ calHeader.created
       /\ calHeader.lines = header.lines /\ calHeader.nl = header.nl
    \/ /\ exitCode # 0
       /\ ~calSpectrum.created /\ ~calHeader.created

HasField(lines, tag) == \E k \in 1..Len(lines) : lines[k].tag = tag

FirstLine(lines, tag) ==
  lines[CHOOSE k \in 1..Len(lines) :
          lines[k].tag = tag /\ \A j \in 1..(k - 1) : lines[j].tag # tag]

\* the value main holds for the k-th required field
FieldValue(k) ==
  CASE k = 1 -> wstart [] k = 2 -> wstop [] k = 3 -> delw [] k = 4 -> numPts

\* number of lookups that have returned a value
FieldsRead == IF pc = "fields" \/ err = "HeaderData" THEN field - 1
              ELSE IF header.open /\ pc # "fields" THEN 4 ELSE 0

\* C6. Header field lookup: a lookup succeeds, with the value of the first
\* line whose first token is the field name, if and only if such a line
\* exists, and signals field-not-found only when no line matches.
HeaderLookupExact ==
  /\ err = "HeaderData" => ~HasField(header.lines, FieldTags[field])
  /\ (header.open /\ exitCode # 134) =>
       \A k \in 1..FieldsRead :
         /\ HasField(header.lines, FieldTags[k])
         /\ FieldValue(k) = FirstLine(header.lines, FieldTags[k]).val

\* C7. Short read: with fewer than sampleCount records in the measured
\* spectrum the run ends non-zero and no record is written for an index
\* whose input record was not read.
ShortReadIsHardError ==
  (calSpectrum.created /\ Len(spectrum.data) < numPts) =>
    /\ Len(calSpectrum.recs) <= Len(spectrum.data)
    /\ pc = "exit" => exitCode # 0

DataOf(lines) == SelectSeq(lines, LAMBDA l : ~l.blank)

\* C8. Response loader: after loading, the samples are exactly the pairs on
\* the non-empty lines of the file, in order, n is their number, and xmin,
\* xmax are the x-values of the first and last data line.
ResponseLoaderExact ==
  /\ pc = "closeResponse" =>
       /\ n = Len(DataOf(calData.lines))
       /\ Len(xVec) = n /\ Len(yVec) = n
       /\ \A i \in 1..Len(xVec) :
            /\ i <= Len(DataOf(calData.lines))
            /\ xVec[i] = DataOf(calData.lines)[i].x
            /\ yVec[i] = DataOf(calData.lines)[i].y
  /\ pc \in {"fit", "calibrate", "copyHeader", "free"} =>
       xmin = xVec[1] /\ xmax = xVec[Len(xVec)]

\* C9. Spline model invariant: whenever the fit workspaces are allocated,
\* numCoefficients >= 4, n > numCoefficients, and the breakpoint count is
\* numCoefficients - 2 without wrap-around (so at least 2).
SplineModelInvariant ==
  gsl # {} =>
    /\ ncoeffs >= MIN_COEFFS
    /\ n > ncoeffs
    /\ nbreak = ncoeffs - 2
    /\ nbreak >= 2

\* C10. Resource release: at every return from main every fit resource has
\* been released.
ResourcesReleasedAtExit ==
  (pc = "exit" /\ exitCode \in {0, 1}) => gsl = {}

====
